---- MODULE Spec2Model ----
\* Verification model of src/procurement-agentv3.py: the Streamlit session of the
\* procurement pipeline (stage selection, input pre-seeding, processing through
\* the retrieval/generation collaborator), the bid-text parser analyze_bids, the
\* vendor scorer analyze_vendor_data and the template lookup get_prompt_template.
\*
\* Every text is a TLA+ string; Len, SubSeq and \o act on strings as they do on
\* sequences, so a Python slice s[i:j] is SubSeq(s, i+1, j).
EXTENDS Integers, Sequences, FiniteSets, TLC

VARIABLES
    initialized,      \* 'initialized' in st.session_state
    current_stage,    \* st.session_state.current_stage
    progress,         \* st.session_state.progress: dict stage key -> output text
    sample_input,     \* <<>> when the key sample_input is absent, else <<text>>
    use_sample_bids,  \* state of the checkbox "Use Sample Bid Data"
    input_data,       \* text returned by the current stage's st.text_area
    pc,               \* "idle" between script runs, "calling" inside qa_chain.run
    last_run,         \* what the latest script run did
    calls,            \* collaborator calls issued by the latest script run
    response,         \* <<>> or <<text>>: what the collaborator returned in that run
    bid_data,         \* argument of analyze_bids
    bids,             \* list returned by analyze_bids
    bid_phase,        \* "input" before analyze_bids ran, "done" after, then "charted"
    bid_chart,        \* what create_bid_visualization returned (<<>> before it ran)
    vendor_data,      \* argument of analyze_vendor_data: the list of rating rows
    vendor_scores,    \* what analyze_vendor_data produced (<<>> before it ran)
    vendor_phase,     \* "input" before analyze_vendor_data ran, "done" after
    prompt_calls      \* the calls of get_prompt_template so far: key and result

vars == <<initialized, current_stage, progress, sample_input, use_sample_bids,
          input_data, pc, last_run, calls, response, bid_data, bids, bid_phase,
          bid_chart, vendor_data, vendor_scores, vendor_phase, prompt_calls>>

session_vars == <<initialized, current_stage, progress, sample_input,
                  use_sample_bids, input_data, pc, last_run, calls, response>>

bid_vars == <<bid_data, bids, bid_phase, bid_chart>>

vendor_vars == <<vendor_data, vendor_scores, vendor_phase>>

prompt_vars == <<prompt_calls>>

\* The variables of the functions called outside the session's script runs.
function_vars == <<bid_vars, vendor_vars, prompt_vars>>

-----------------------------------------------------------------------------
\* Bounds of the model.

\* Number of distinct texts the generation collaborator may return.
NumResponses == 2

\* Number of distinct texts the user may type into a text area.
NumUserTexts == 1

-----------------------------------------------------------------------------
\* Fixed data of the program.

None == "None"

\* The sidebar's list of stage keys, in order.
stages ==
    << "business_to_technical_req", "rfp_generation", "vendor_matching",
       "tender_email", "bid_evaluation", "negotiation_strategy", "risk_contract" >>

StageKeys == { stages[i] : i \in 1..Len(stages) }

\* The literal assigned to st.session_state.sample_input (lines 835-843).
SampleInputText ==
    "\n"
    \o "        TransGlobal Industries needs to procure 100 high-performance laptops for the engineering department with the following business requirements:\n"
    \o "        1. The laptops must support complex CAD software and engineering applications\n"
    \o "        2. They should have sufficient battery life for day-long use\n"
    \o "        3. They must be compatible with our existing network infrastructure\n"
    \o "        4. The procurement must be completed within the next 8 weeks\n"
    \o "        5. The budget is approximately $120,000 for the entire purchase\n"
    \o "        6. We require a minimum 3-year warranty with onsite support\n"
    \o "        "

\* The literal sample_bids (lines 967-994).
sample_bids ==
    "\n"
    \o "            Bid 1: Tech Solutions Ltd.\n"
    \o "            Technical Proposal:\n"
    \o "            Processor: Intel Core i7 (11th Gen)\n"
    \o "            RAM: 16GB DDR4\n"
    \o "            Storage: 512GB SSD\n"
    \o "            Financial Proposal:\n"
    \o "            Unit Price: $1,200 per laptop\n"
    \o "            Total Cost: $125,000\n"
    \o "            \n"
    \o "            Bid 2: Apex Computers\n"
    \o "            Technical Proposal:\n"
    \o "            Processor: AMD Ryzen 7 (5000 series)\n"
    \o "            RAM: 16GB DDR4\n"
    \o "            Storage: 1TB SSD\n"
    \o "            Financial Proposal:\n"
    \o "            Unit Price: $1,150 per laptop\n"
    \o "            Total Cost: $119,000\n"
    \o "            \n"
    \o "            Bid 3: Digital Edge\n"
    \o "            Technical Proposal:\n"
    \o "            Processor: AMD Ryzen 7 (4000 series)\n"
    \o "            RAM: 16GB DDR4\n"
    \o "            Storage: 512GB SSD\n"
    \o "            Financial Proposal:\n"
    \o "            Unit Price: $1,100 per laptop\n"
    \o "            Total Cost: $114,500\n"
    \o "            "

\* Texts the collaborator can return: the empty text first, then markdown.
ResponsePool == << "", "## out1", "## out2", "## out3", "## out4" >>

Responses == { ResponsePool[i] : i \in 1..NumResponses }

\* Texts the user can type.
UserTextPool == << "typed A", "", "typed B", "typed C" >>

UserTexts == { UserTextPool[i] : i \in 1..NumUserTexts }

EmptyDict == [k \in {} |-> ""]

-----------------------------------------------------------------------------
\* Mutant: the block runs without its guard, in every script run.
session_init_unguarded(init, cur, prog) ==
    [initialized |-> TRUE, current_stage |-> None, progress |-> EmptyDict]

\* Session initialization, executed at the top of every script run.  The
\* result is the triple of session keys the block writes.
session_init(init, cur, prog) ==
    IF ~init
    THEN [initialized |-> TRUE, current_stage |-> None, progress |-> EmptyDict]
    ELSE [initialized |-> init, current_stage |-> cur, progress |-> prog]

\* st.session_state.get('sample_input', '')
sample_input_get(sample) == IF sample = <<>> THEN "" ELSE sample[1]

\* Mutant: the two stored outputs are interpolated in the wrong places.
tender_email_seed_swapped(prog) ==
    "\n            RFP Document:\n            "
    \o prog["vendor_matching"]
    \o "\n            \n            Selected Vendors:\n            "
    \o prog["rfp_generation"]
    \o "\n            "

\* The f-string that seeds tender_email.
tender_email_seed(prog) ==
    "\n            RFP Document:\n            "
    \o prog["rfp_generation"]
    \o "\n            \n            Selected Vendors:\n            "
    \o prog["vendor_matching"]
    \o "\n            "

\* The f-string that seeds risk_contract.
risk_contract_seed(prog) ==
    "\n            Bid Information:\n            "
    \o prog["bid_evaluation"]
    \o "\n            \n            Negotiation Strategy:\n            "
    \o prog["negotiation_strategy"]
    \o "\n            "

\* The st.text_area call of each stage's branch: its label and its value=
\* argument ("" where the call passes none).
input_business_to_technical_req(sample) ==
    [label |-> "Enter Business Requirements:", value |-> sample_input_get(sample)]

input_rfp_generation(prog) ==
    IF "business_to_technical_req" \in DOMAIN prog
    THEN [label |-> "Technical Requirements for RFP:",
          value |-> prog["business_to_technical_req"]]
    ELSE [label |-> "Enter Technical Requirements:", value |-> ""]

input_vendor_matching(prog) ==
    IF "rfp_generation" \in DOMAIN prog
    THEN [label |-> "RFP Document:", value |-> prog["rfp_generation"]]
    ELSE [label |-> "Enter RFP Document:", value |-> ""]

input_tender_email(prog) ==
    IF "vendor_matching" \in DOMAIN prog /\ "rfp_generation" \in DOMAIN prog
    THEN [label |-> "RFP and Vendor Information:", value |-> tender_email_seed(prog)]
    ELSE [label |-> "Enter RFP and Vendor Information:", value |-> ""]

\* Mutant: the bid evaluation input is seeded from the tender email.
input_bid_evaluation_from_tender(prog, usb) ==
    IF usb
    THEN [label |-> "Bid Information:", value |-> sample_bids]
    ELSE IF "tender_email" \in DOMAIN prog
         THEN [label |-> "Bids for Tender:", value |-> prog["tender_email"]]
         ELSE [label |-> "Enter Bid Information:", value |-> ""]

input_bid_evaluation(prog, usb) ==
    IF usb
    THEN [label |-> "Bid Information:", value |-> sample_bids]
    ELSE [label |-> "Enter Bid Information:", value |-> ""]

input_negotiation_strategy(prog) ==
    IF "bid_evaluation" \in DOMAIN prog
    THEN [label |-> "Top Bids for Negotiation:", value |-> prog["bid_evaluation"]]
    ELSE [label |-> "Enter Top Bids:", value |-> ""]

\* Mutant: the area is seeded as soon as the negotiation strategy is stored.
input_risk_contract_either(prog) ==
    IF "negotiation_strategy" \in DOMAIN prog
    THEN [label |-> "Vendor and Bid Information:", value |-> prog["negotiation_strategy"]]
    ELSE [label |-> "Enter Vendor and Bid Information:", value |-> ""]

input_risk_contract(prog) ==
    IF "negotiation_strategy" \in DOMAIN prog /\ "bid_evaluation" \in DOMAIN prog
    THEN [label |-> "Vendor and Bid Information:", value |-> risk_contract_seed(prog)]
    ELSE [label |-> "Enter Vendor and Bid Information:", value |-> ""]

\* The if/elif chain on current_stage that picks the input area.  With no
\* current stage the script renders no text area.
text_area(stage, prog, sample, usb) ==
    CASE stage = "business_to_technical_req" -> input_business_to_technical_req(sample)
      [] stage = "rfp_generation" -> input_rfp_generation(prog)
      [] stage = "vendor_matching" -> input_vendor_matching(prog)
      [] stage = "tender_email" -> input_tender_email(prog)
      [] stage = "bid_evaluation" -> input_bid_evaluation(prog, usb)
      [] stage = "negotiation_strategy" -> input_negotiation_strategy(prog)
      [] stage = "risk_contract" -> input_risk_contract(prog)
      [] OTHER -> [label |-> "", value |-> ""]

\* Mutant: every text area shares one widget, so typed text is carried over.
text_area_result_shared(old, new, typed) == typed

\* What st.text_area returns in a script run.  The call carries no key, so the
\* widget is identified by its arguments: when the run reaches the same call
\* with the same arguments as the run before, the widget keeps the text the
\* browser holds (typed); otherwise it is a new widget showing value=.
text_area_result(old, new, typed) ==
    IF new = old THEN typed ELSE new.value

\* Mutant: the dict is replaced by one holding the new entry alone.
store_result_alone(prog, stage, result) == [k \in {stage} |-> result]

\* Mutant: an existing entry is kept (setdefault instead of assignment).
store_result_keep_first(prog, stage, result) ==
    [k \in DOMAIN prog \cup {stage} |-> IF k \in DOMAIN prog THEN prog[k] ELSE result]

\* Mutant: storing a stage's result discards the results of the stages listed
\* after it.
store_result_reset_later(prog, stage, result) ==
    LET pos(key) == CHOOSE i \in 1..Len(stages) : stages[i] = key
        kept == { k \in DOMAIN prog : pos(k) <= pos(stage) }
    IN  [k \in kept \cup {stage} |-> IF k = stage THEN result ELSE prog[k]]

\* st.session_state.progress[current_stage] = result
store_result(prog, stage, result) ==
    [k \in DOMAIN prog \cup {stage} |-> IF k = stage THEN result ELSE prog[k]]

\* Mutant: the Process block is entered whatever the input.
process_guard_any(text) == TRUE

\* The condition of "if process_button and input_data" with the button pressed.
process_guard(text) == text # ""

\* process_procurement_stage returns what qa_chain.run returned (reply), or
\* raises when the chain raises; the one call the chain makes is counted by
\* the caller.
process_procurement_stage(stage, text, reply) == reply

-----------------------------------------------------------------------------
\* Python string operations used by analyze_bids.

Char(s, i) == SubSeq(s, i, i)

SetMin(S) == CHOOSE x \in S : \A y \in S : x <= y

SetMax(S) == CHOOSE x \in S : \A y \in S : y <= x

\* s.find(sub) + 1 for a non-empty sub: the first position of sub in s, 0 if none.
str_find(s, sub) ==
    LET n == Len(sub)
        hits == { i \in 1..(Len(s) - n + 1) : SubSeq(s, i, i + n - 1) = sub }
    IN  IF hits = {} THEN 0 ELSE SetMin(hits)

\* sub in s
str_contains(s, sub) == str_find(s, sub) # 0

\* s.split(sep) for a non-empty sep
RECURSIVE str_split(_, _)
str_split(s, sep) ==
    LET i == str_find(s, sep)
    IN  IF i = 0
        THEN << s >>
        ELSE << SubSeq(s, 1, i - 1) >>
             \o str_split(SubSeq(s, i + Len(sep), Len(s)), sep)

\* sep.join(parts)
RECURSIVE str_join(_, _)
str_join(parts, sep) ==
    IF Len(parts) = 0 THEN ""
    ELSE IF Len(parts) = 1 THEN parts[1]
    ELSE parts[1] \o sep \o str_join(Tail(parts), sep)

\* s.replace(old, new) for a non-empty old
str_replace(s, old, new) == str_join(str_split(s, old), new)

\* The characters c with c.isspace() that a string of the model can hold:
\* space, \t, \n, \r, \f, the vertical tab (0x0B), the separators 0x1C to
\* 0x1F, the next-line character U+0085, the no-break space U+00A0 and the
\* ogham space mark U+1680; the last eight stand in the literals below as the
\* characters themselves.
Whitespace ==
    { " ", "\t", "\n", "\r", "\f", "", "", "", "", "",
      "", " ", " " }

\* s with the leading and trailing characters of the set chars removed.
strip_chars(s, chars) ==
    LET keep == { i \in 1..Len(s) : Char(s, i) \notin chars }
    IN  IF keep = {} THEN "" ELSE SubSeq(s, SetMin(keep), SetMax(keep))

\* s.strip()
str_strip(s) == strip_chars(s, Whitespace)

\* The characters float() skips around the number: the six of C's isspace()
\* and, above U+007F, the characters with c.isspace(), which float() turns
\* into spaces before it parses (U+0085, U+00A0 and U+1680 among those a
\* string of the model can hold); 0x1C to 0x1F are not among them.
FloatWhitespace ==
    { " ", "\t", "\n", "\r", "\f", "", "", " ", " " }

-----------------------------------------------------------------------------
\* Python floats.  A finite value is m * 10^e with e <= 0 and, when e < 0,
\* m not a multiple of 10; so an integer value n is [m |-> n, e |-> 0].
\* Infinities carry their sign in m.  The model holds values whose scaled
\* mantissa fits TLC's integers.

Finite(m, e) == [kind |-> "finite", m |-> m, e |-> e]

PosInf == [kind |-> "inf", m |-> 1, e |-> 0]

NegInf == [kind |-> "inf", m |-> -1, e |-> 0]

NaN == [kind |-> "nan", m |-> 0, e |-> 0]

\* What float(s) does when s is no float literal: raise ValueError.
ValueError == [kind |-> "error", m |-> 0, e |-> 0]

RECURSIVE Pow10(_)
Pow10(n) == IF n <= 0 THEN 1 ELSE 10 * Pow10(n - 1)

\* m * 10^e brought to the form above.
RECURSIVE Normalize(_, _)
Normalize(m, e) ==
    IF m = 0 THEN Finite(0, 0)
    ELSE IF e > 0 THEN Normalize(m * 10, e - 1)
    ELSE IF e < 0 /\ m % 10 = 0 THEN Normalize(m \div 10, e + 1)
    ELSE Finite(m, e)

\* a < b on floats: false whenever one side is nan.
float_lt(a, b) ==
    IF a.kind = "nan" \/ b.kind = "nan" THEN FALSE
    ELSE IF a.kind = "inf" THEN a.m < 0 /\ ~(b.kind = "inf" /\ b.m < 0)
    ELSE IF b.kind = "inf" THEN b.m > 0
    ELSE LET lo == IF a.e < b.e THEN a.e ELSE b.e
         IN  a.m * Pow10(a.e - lo) < b.m * Pow10(b.e - lo)

\* The decimal digits float() reads: the ASCII digits and, turned into them
\* before it parses, the characters of Unicode's category Nd; each string
\* holds the digits 0 to 9 of one script, for the scripts whose digits a
\* string of the model can hold.
Digits ==
    << "0123456789",
       "۰۱۲۳۴۵۶۷۸۹",
       "߀߁߂߃߄߅߆߇߈߉",
       "০১২৩৪৫৬৭৮৯",
       "૦૧૨૩૪૫૬૭૮૯",
       "௦௧௨௩௪௫௬௭௮௯",
       "೦೧೨೩೪೫೬೭೮೯",
       "෦෧෨෩෪෫෬෭෮෯",
       "໐໑໒໓໔໕໖໗໘໙",
       "႐႑႒႓႔႕႖႗႘႙",
       "០១២៣៤៥៦៧៨៩",
       "᧐᧑᧒᧓᧔᧕᧖᧗᧘᧙",
       "᪀᪁᪂᪃᪄᪅᪆᪇᪈᪉",
       "᪐᪑᪒᪓᪔᪕᪖᪗᪘᪙",
       "᮰᮱᮲᮳᮴᮵᮶᮷᮸᮹",
       "꣐꣑꣒꣓꣔꣕꣖꣗꣘꣙",
       "꧐꧑꧒꧓꧔꧕꧖꧗꧘꧙",
       "꧰꧱꧲꧳꧴꧵꧶꧷꧸꧹",
       "꯰꯱꯲꯳꯴꯵꯶꯷꯸꯹" >>

IsDigit(c) == \E r \in 1..Len(Digits) : str_find(Digits[r], c) # 0

DigitValue(c) ==
    str_find(Digits[CHOOSE r \in 1..Len(Digits) : str_find(Digits[r], c) # 0], c) - 1

\* A digit part: digits, with single underscores allowed between two digits.
IsDigitPart(s) ==
    /\ Len(s) > 0
    /\ \A i \in 1..Len(s) :
          \/ IsDigit(Char(s, i))
          \/ /\ Char(s, i) = "_"
             /\ 1 < i /\ i < Len(s)
             /\ IsDigit(Char(s, i - 1)) /\ IsDigit(Char(s, i + 1))

\* The number a digit part (or the empty string) spells, underscores skipped.
RECURSIVE DigitsValue(_, _)
DigitsValue(s, acc) ==
    IF Len(s) = 0 THEN acc
    ELSE IF Head(s) = "_" THEN DigitsValue(Tail(s), acc)
    ELSE DigitsValue(Tail(s), 10 * acc + DigitValue(Head(s)))

\* Number of digits in a digit part (or the empty string).
DigitCount(s) == Cardinality({ i \in 1..Len(s) : IsDigit(Char(s, i)) })

UpperOf(c) ==
    CASE c = "a" -> "A" [] c = "f" -> "F" [] c = "i" -> "I" [] c = "n" -> "N"
      [] c = "t" -> "T" [] c = "y" -> "Y" [] OTHER -> c

\* s equals the lower-case word, letter case ignored.
MatchesWord(s, word) ==
    /\ Len(s) = Len(word)
    /\ \A i \in 1..Len(word) : Char(s, i) \in { Char(word, i), UpperOf(Char(word, i)) }

\* Number of decimal digits of m, for 0 < m < 2^31.
DigitLen(m) == CHOOSE d \in 1..10 : Pow10(d - 1) <= m /\ (d = 10 \/ m < Pow10(d))

\* m * 10^e lies below 2^-1075 = 2.4703282292...e-324, half the smallest
\* positive double: float() returns 0.0 for it.
Underflows(m, e) ==
    LET d == DigitLen(m)
        lead == e + d - 1
    IN  \/ lead < 0 - 324
        \/ /\ lead = 0 - 324
           /\ d = 10 \/ m <= 247032822 \div Pow10(9 - d)

\* The value of a literal that lies where neighbouring doubles are further
\* apart than neighbouring literals (below 1e-313): the model has none.
NoDouble == CHOOSE v \in {} : TRUE

\* The double float() returns for the decimal f: 0.0 when f underflows, f
\* itself (standing for the double nearest to it) from 1e-313 upwards, where
\* distinct literals of the model give distinct doubles in the same order.
round_to_double(f) ==
    IF f.m = 0 THEN f
    ELSE IF Underflows(f.m, f.e) THEN Finite(0, 0)
    ELSE IF f.e + DigitLen(f.m) - 1 < 0 - 313 THEN NoDouble
    ELSE f

\* The unsigned decimal literal body: digits [. digits] [(e|E) [sign] digits].
decimal_literal(body) ==
    LET epos  == LET hits == { i \in 1..Len(body) : Char(body, i) \in {"e", "E"} }
                 IN  IF hits = {} THEN 0 ELSE SetMin(hits)
        mant  == IF epos = 0 THEN body ELSE SubSeq(body, 1, epos - 1)
        expo  == IF epos = 0 THEN "" ELSE SubSeq(body, epos + 1, Len(body))
        esign == IF Len(expo) > 0 /\ Head(expo) \in {"+", "-"} THEN Head(expo) ELSE ""
        edig  == IF esign = "" THEN expo ELSE Tail(expo)
        dot   == str_find(mant, ".")
        ipart == IF dot = 0 THEN mant ELSE SubSeq(mant, 1, dot - 1)
        fpart == IF dot = 0 THEN "" ELSE SubSeq(mant, dot + 1, Len(mant))
        ok    == /\ ipart = "" \/ IsDigitPart(ipart)
                 /\ fpart = "" \/ IsDigitPart(fpart)
                 /\ ipart # "" \/ fpart # ""
                 /\ epos = 0 \/ IsDigitPart(edig)
        ev    == IF epos = 0 THEN 0
                 ELSE IF esign = "-" THEN 0 - DigitsValue(edig, 0)
                 ELSE DigitsValue(edig, 0)
    IN  IF ~ok THEN ValueError
        ELSE round_to_double(
               Normalize(DigitsValue(fpart, DigitsValue(ipart, 0)), ev - DigitCount(fpart)))

Negate(f) ==
    IF f.kind \in {"finite", "inf"} THEN [f EXCEPT !.m = 0 - f.m] ELSE f

\* float(s): surrounding whitespace stripped, an optional sign, then inf,
\* infinity or nan in any letter case, or a decimal literal.
float(s) ==
    LET t    == strip_chars(s, FloatWhitespace)
        sign == IF Len(t) > 0 /\ Head(t) \in {"+", "-"} THEN Head(t) ELSE ""
        body == IF sign = "" THEN t ELSE Tail(t)
        val  == IF MatchesWord(body, "inf") \/ MatchesWord(body, "infinity") THEN PosInf
                ELSE IF MatchesWord(body, "nan") THEN NaN
                ELSE decimal_literal(body)
    IN  IF sign = "-" THEN Negate(val) ELSE val

-----------------------------------------------------------------------------
\* analyze_bids

\* The try/except around the price extraction: the text after the first "$",
\* commas removed, converted by float(); 0 when there is no "$" or float() raises.
extract_price(price_text) ==
    LET parts == str_split(price_text, "$")
    IN  IF Len(parts) < 2
        THEN Finite(0, 0)
        ELSE LET f == float(str_replace(parts[2], ",", ""))
             IN  IF f.kind = "error" THEN Finite(0, 0) ELSE f

\* The dict built for one chunk of the split; a key the code does not set is
\* not in the record's domain.
bid_info(bid) ==
    LET lines == str_split(bid, "\n")
        has_vendor == str_contains(lines[1], ":")
        price_lines == SelectSeq(lines, LAMBDA line : str_contains(line, "Total Cost:"))
        delivery_lines == SelectSeq(lines, LAMBDA line : str_contains(line, "Lead Time:"))
        keys == {"raw_text"}
                \cup (IF has_vendor THEN {"vendor"} ELSE {})
                \cup (IF Len(price_lines) > 0 THEN {"price"} ELSE {})
                \cup (IF Len(delivery_lines) > 0 THEN {"delivery_time"} ELSE {})
    IN  [k \in keys |->
           CASE k = "raw_text" -> "Bid" \o bid
             [] k = "vendor" -> str_strip(str_split(lines[1], ":")[2])
             [] k = "price" -> extract_price(str_strip(price_lines[1]))
             [] k = "delivery_time" -> str_strip(delivery_lines[1])]

\* Mutant: a chunk with no "Total Cost:" line is skipped.
bid_list_priced_only(bid_data_arg) ==
    LET chunks == SelectSeq(str_split(bid_data_arg, "Bid"),
                            LAMBDA bid : /\ str_strip(bid) # ""
                                         /\ str_contains(bid, "Total Cost:"))
    IN  [i \in 1..Len(chunks) |-> bid_info(chunks[i])]

\* Mutant: only the empty chunk is skipped ("if not bid" without strip()).
bid_list_keep_blank(bid_data_arg) ==
    LET chunks == SelectSeq(str_split(bid_data_arg, "Bid"), LAMBDA bid : bid # "")
    IN  [i \in 1..Len(chunks) |-> bid_info(chunks[i])]

\* The list built by the loop over bid_data.split("Bid"), before sorting.
bid_list(bid_data_arg) ==
    LET chunks == SelectSeq(str_split(bid_data_arg, "Bid"),
                            LAMBDA bid : str_strip(bid) # "")
    IN  [i \in 1..Len(chunks) |-> bid_info(chunks[i])]

\* The sort key: x.get("price", float("inf"))
price_key(x) == IF "price" \in DOMAIN x THEN x["price"] ELSE PosInf

\* sorted(seq, key=key) as CPython computes it for lists shorter than 64:
\* the leading run is found (and reversed when strictly descending), then each
\* later element is placed by binary insertion; lt is the only comparison.
RECURSIVE run_end(_, _, _, _)
run_end(keys, k, descending, n) ==
    IF k > n THEN n
    ELSE IF descending = float_lt(keys[k], keys[k - 1])
         THEN run_end(keys, k + 1, descending, n)
         ELSE k - 1

RECURSIVE bisect(_, _, _, _, _)
bisect(keys, perm, pivot, l, r) ==
    IF l >= r THEN l
    ELSE LET p == l + ((r - l) \div 2)
         IN  IF float_lt(keys[pivot], keys[perm[p]])
             THEN bisect(keys, perm, pivot, l, p)
             ELSE bisect(keys, perm, pivot, p + 1, r)

RECURSIVE binarysort(_, _, _)
binarysort(keys, perm, start) ==
    IF start > Len(perm) THEN perm
    ELSE LET pivot == perm[start]
             l == bisect(keys, perm, pivot, 1, start)
             moved == [i \in 1..Len(perm) |->
                         IF i < l \/ i > start THEN perm[i]
                         ELSE IF i = l THEN pivot
                         ELSE perm[i - 1]]
         IN  binarysort(keys, moved, start + 1)

\* The order sorted() gives: position i of the result holds element order[i].
sorted_order(keys) ==
    LET n == Len(keys)
        descending == n >= 2 /\ float_lt(keys[2], keys[1])
        run == IF n < 2 THEN n ELSE run_end(keys, 3, descending, n)
        first == [i \in 1..n |-> IF descending /\ i <= run THEN run + 1 - i ELSE i]
    IN  binarysort(keys, first, run + 1)

analyze_bids(bid_data_arg) ==
    LET unsorted == bid_list(bid_data_arg)
        keys == [i \in 1..Len(unsorted) |-> price_key(unsorted[i])]
        order == sorted_order(keys)
    IN  [i \in 1..Len(unsorted) |-> unsorted[order[i]]]

-----------------------------------------------------------------------------
\* bid.get(key, default)
dict_get(d, key, default) == IF key \in DOMAIN d THEN d[key] ELSE default

\* The value create_bid_visualization returns when it draws nothing.
NoFigure == [kind |-> "None"]

\* Mutant: one record with a vendor and a price is enough (any for all); the
\* bars of the other records take the defaults of bid.get.
create_bid_visualization_any(bids_arg) ==
    IF \/ Len(bids_arg) = 0
       \/ ~ \E i \in 1..Len(bids_arg) :
              "vendor" \in DOMAIN bids_arg[i] /\ "price" \in DOMAIN bids_arg[i]
    THEN NoFigure
    ELSE [kind |-> "Figure",
          title |-> "Bid Comparison",
          x |-> [i \in 1..Len(bids_arg) |->
                   dict_get(bids_arg[i], "vendor", "Vendor " \o ToString(i))],
          y |-> [i \in 1..Len(bids_arg) |->
                   dict_get(bids_arg[i], "price", Finite(0, 0))]]

\* create_bid_visualization: None unless the list is non-empty and every record
\* has the keys vendor and price; otherwise the figure with one Bar trace,
\* given by its title, its x (the vendors) and its y (the prices).  The bar
\* labels are derived from y and the styling is fixed; neither is kept.
create_bid_visualization(bids_arg) ==
    IF \/ Len(bids_arg) = 0
       \/ ~ \A i \in 1..Len(bids_arg) :
              "vendor" \in DOMAIN bids_arg[i] /\ "price" \in DOMAIN bids_arg[i]
    THEN NoFigure
    ELSE [kind |-> "Figure",
          title |-> "Bid Comparison",
          x |-> [i \in 1..Len(bids_arg) |->
                   dict_get(bids_arg[i], "vendor", "Vendor " \o ToString(i))],
          y |-> [i \in 1..Len(bids_arg) |->
                   dict_get(bids_arg[i], "price", Finite(0, 0))]]

\* The right column of the bid_evaluation result card: the records are parsed
\* from the text passed in and plotted when create_bid_visualization returns a
\* figure.  << fig >> is the plotted chart, << >> an empty column.
bid_column(text) ==
    LET parsed == analyze_bids(text)
    IN  IF Len(parsed) > 0
        THEN LET fig == create_bid_visualization(parsed)
             IN  IF fig.kind = "Figure" THEN << fig >> ELSE << >>
        ELSE << >>

\* Mutant: the chart is built from the text of the stored result.
bid_evaluation_display_from_result(prog, text) ==
    [result |-> prog["bid_evaluation"],
     chart |-> bid_column(prog["bid_evaluation"])]

\* The result card of bid_evaluation: the stored result in the left column,
\* the chart in the right one.  text is the script's input_data, the value the
\* stage's text area returned in this run.
bid_evaluation_display(prog, text) ==
    [result |-> prog["bid_evaluation"],
     chart |-> bid_column(text)]

\* One run of the script from its top down to the Process block, triggered by
\* one browser event: a sidebar stage button (stage_btn # None), the sample
\* button (sample_btn), text typed into the text area (typed), the checkbox
\* (checkbox) or the Process button (process_btn).  A run that enters the
\* Process block first plays the progress animation (a hundred sleeps with a
\* Streamlit call after each); cut tells whether the browser delivers another
\* event in that time, in which case Streamlit ends the run inside the
\* animation and process_procurement_stage is never called.
\* Nothing in the script keeps an event from arriving while the run before
\* blocks in qa_chain.run (pc = "calling"): no button is disabled and no flag
\* is tested.  The run of that event supersedes the blocked one, which
\* Streamlit stops when it next touches st.session_state, at line 1064 before
\* the assignment, so that the result of its call is never stored; the new
\* run reads the session state as the blocked run found it.  Whether the
\* superseded call is still running when the new run issues its own is decided
\* by the Streamlit runtime and reaches no session key; the model keeps the
\* call of the latest run only.
script_run(stage_btn, sample_btn, typed, checkbox, process_btn, cut, trigger) ==
    LET si == session_init(initialized, current_stage, progress)
    IN  /\ initialized' = si.initialized
        /\ progress' = si.progress
        \* sidebar: the stage buttons, then the sample button
        /\ current_stage' = IF stage_btn # None THEN stage_btn ELSE si.current_stage
        /\ sample_input' = IF sample_btn THEN << SampleInputText >> ELSE sample_input
        \* the checkbox keeps its state only if the run before rendered it
        /\ use_sample_bids' =
             IF current_stage' = "bid_evaluation" /\ current_stage = "bid_evaluation"
             THEN checkbox ELSE FALSE
        \* the input area of the current stage
        /\ input_data' =
             IF current_stage' = None
             THEN ""
             ELSE text_area_result(
                    text_area(current_stage, progress, sample_input, use_sample_bids),
                    text_area(current_stage', progress', sample_input', use_sample_bids'),
                    typed)
        \* the Process block: its guard, the animation, then the call inside
        \* process_procurement_stage
        /\ pc' = IF /\ process_btn /\ current_stage' # None
                    /\ process_guard(input_data') /\ ~cut
                 THEN "calling" ELSE "idle"
        /\ calls' = IF pc' = "calling" THEN 1 ELSE 0
        /\ response' = <<>>
        /\ last_run' = trigger
        /\ UNCHANGED function_vars

\* First run of the script in a new session.
PageLoad ==
    /\ ~initialized
    /\ script_run(None, FALSE, "", FALSE, FALSE, FALSE, "render")

\* Mutant: the button of a stage that is already stored does nothing.
SelectStage_once(s) ==
    /\ initialized
    /\ s \notin DOMAIN progress
    /\ script_run(s, FALSE, input_data, use_sample_bids, FALSE, FALSE, "render")

\* Mutant: the click on a stage button also counts as a click on Process.
SelectStage_processes(s) ==
    /\ initialized
    /\ script_run(s, FALSE, input_data, use_sample_bids, TRUE, FALSE, "render")

\* The user clicks the sidebar button of stage s; the buttons are drawn in
\* every run (lines 817-829), so the click can also come while a call is
\* pending.
SelectStage(s) ==
    /\ initialized
    /\ script_run(s, FALSE, input_data, use_sample_bids, FALSE, FALSE, "render")

\* The user clicks "Load Sample Business Requirements".
LoadSample ==
    /\ initialized
    /\ script_run(None, TRUE, input_data, use_sample_bids, FALSE, FALSE, "render")

\* The user replaces the text of the current stage's text area by t.
EditInput(t) ==
    /\ initialized /\ current_stage # None
    /\ t # input_data
    /\ script_run(None, FALSE, t, use_sample_bids, FALSE, FALSE, "render")

\* The user toggles "Use Sample Bid Data".
ToggleSampleBids ==
    /\ initialized /\ current_stage = "bid_evaluation"
    /\ script_run(None, FALSE, input_data, ~use_sample_bids, FALSE, FALSE, "render")

\* The user clicks Process: the run skips the Process block, or enters it and
\* blocks in qa_chain.run, or enters it and is ended inside the animation by
\* the next browser event (whose own run is the next step).  The button is
\* drawn in every run of a selected stage (line 1050), so it can be clicked
\* again while a call is pending; the new run then issues its own call.
ProcessPress ==
    /\ initialized /\ current_stage # None
    /\ \E cut \in BOOLEAN :
          script_run(None, FALSE, input_data, use_sample_bids, TRUE, cut, "process")

\* qa_chain.run returns reply to a run that no event has superseded: the
\* result is stored and the run ends.
CollaboratorReturn(reply) ==
    /\ pc = "calling"
    /\ LET result == process_procurement_stage(current_stage, input_data, reply)
       IN  /\ progress' = store_result(progress, current_stage, result)
           /\ response' = << reply >>
    /\ pc' = "idle"
    /\ last_run' = "process_ok"
    /\ UNCHANGED <<initialized, current_stage, sample_input, use_sample_bids,
                   input_data, calls, function_vars>>

\* Mutant: the exception is caught and its text stored as the stage's result.
CollaboratorRaise_stored ==
    /\ pc = "calling"
    /\ pc' = "idle"
    /\ last_run' = "process_error"
    /\ progress' = store_result(progress, current_stage, "Error")
    /\ UNCHANGED <<initialized, current_stage, sample_input,
                   use_sample_bids, input_data, calls, response, function_vars>>

\* Mutant: the call is issued a second time before the run gives up.
CollaboratorRaise_retry ==
    /\ pc = "calling"
    /\ IF calls < 2
       THEN calls' = calls + 1 /\ pc' = "calling" /\ last_run' = last_run
       ELSE calls' = calls /\ pc' = "idle" /\ last_run' = "process_error"
    /\ UNCHANGED <<initialized, current_stage, progress, sample_input,
                   use_sample_bids, input_data, response, function_vars>>

\* qa_chain.run raises in a run that no event has superseded: the exception
\* leaves the script, the run ends.
CollaboratorRaise ==
    /\ pc = "calling"
    /\ pc' = "idle"
    /\ last_run' = "process_error"
    /\ UNCHANGED <<initialized, current_stage, progress, sample_input,
                   use_sample_bids, input_data, calls, response, function_vars>>

Init ==
    /\ initialized = FALSE
    /\ current_stage = None
    /\ progress = EmptyDict
    /\ sample_input = <<>>
    /\ use_sample_bids = FALSE
    /\ input_data = ""
    /\ pc = "idle"
    /\ last_run = "none"
    /\ calls = 0
    /\ response = <<>>
    /\ bid_data = ""
    /\ bids = <<>>
    /\ bid_phase = "input"
    /\ bid_chart = <<>>
    /\ vendor_data = <<>>
    /\ vendor_scores = <<>>
    /\ vendor_phase = "input"
    /\ prompt_calls = <<>>

Next ==
    \/ PageLoad
    \/ \E s \in StageKeys : SelectStage(s)
    \/ LoadSample
    \/ \E t \in UserTexts : EditInput(t)
    \/ ToggleSampleBids
    \/ ProcessPress
    \/ \E reply \in Responses : CollaboratorReturn(reply)
    \/ CollaboratorRaise

Spec == Init /\ [][Next]_vars

-----------------------------------------------------------------------------
\* analyze_bids as a state machine: a text is assembled from bid blocks, then
\* analyze_bids is applied to it.

\* Largest number of "Bid" markers in a text.
MaxBids == 3

\* Text that may precede the first "Bid" marker.
Preambles == { "", "Offers received:\n" }

\* What may follow a "Bid" marker, up to the next one.  The last block has a
\* no-break space (U+00A0) after the vendor name, around the price and after
\* the lead time, and ends with a next-line character (U+0085).
BidBlocks ==
    { " 1: Acme\nTotal Cost: $1,000\n\n",
      " 2: Zeta\nTotal Cost: $500",
      " 3: Nova: East\nTotal Cost: $1000\nLead Time: 2 weeks\n",
      " 4: Omega\nTotal Cost: $nan\n",
      " 5: Delta\nTotal Cost: TBD\n",
      " six\nLead Time: 1 week\n",
      " \n",
      " 8: Kappa\nTotal Cost: $12x\n",
      " 9: Iota \nTotal Cost: $ 750 \nLead Time: 3 \n" }

\* Number of "Bid" markers in a text.
BidCount(text) == Len(str_split(text, "Bid")) - 1

InitBids ==
    /\ initialized = FALSE
    /\ current_stage = None
    /\ progress = EmptyDict
    /\ sample_input = <<>>
    /\ use_sample_bids = FALSE
    /\ input_data = ""
    /\ pc = "idle"
    /\ last_run = "none"
    /\ calls = 0
    /\ response = <<>>
    /\ bid_data \in Preambles
    /\ bids = <<>>
    /\ bid_phase = "input"
    /\ bid_chart = <<>>
    /\ vendor_data = <<>>
    /\ vendor_scores = <<>>
    /\ vendor_phase = "input"
    /\ prompt_calls = <<>>

\* One more bid block is written into the text.
AppendBid(block) ==
    /\ bid_phase = "input"
    /\ BidCount(bid_data) < MaxBids
    /\ bid_data' = bid_data \o "Bid" \o block
    /\ UNCHANGED <<bids, bid_phase, bid_chart, session_vars, vendor_vars, prompt_vars>>

\* bids = analyze_bids(bid_data)
AnalyzeBids ==
    /\ bid_phase = "input"
    /\ bids' = analyze_bids(bid_data)
    /\ bid_phase' = "done"
    /\ UNCHANGED <<bid_data, bid_chart, session_vars, vendor_vars, prompt_vars>>

\* fig = create_bid_visualization(bids)
CreateBidVisualization ==
    /\ bid_phase = "done"
    /\ bid_chart' = create_bid_visualization(bids)
    /\ bid_phase' = "charted"
    /\ UNCHANGED <<bid_data, bids, session_vars, vendor_vars, prompt_vars>>

NextBids ==
    \/ \E block \in BidBlocks : AppendBid(block)
    \/ AnalyzeBids
    \/ CreateBidVisualization

SpecBids == InitBids /\ [][NextBids]_vars

-----------------------------------------------------------------------------
\* analyze_vendor_data.  The rating table is the list of row dicts that
\* load_vendor_data hands to pd.DataFrame; a score is the exact value of the
\* quotient pandas computes in double precision, held as a reduced fraction
\* [num |-> n, den |-> d] with d > 0.

RECURSIVE GCD(_, _)
GCD(a, b) == IF b = 0 THEN a ELSE GCD(b, a % b)

Abs(n) == IF n < 0 THEN 0 - n ELSE n

\* n / d for an integer n and d > 0.
Rat(n, d) ==
    LET g == GCD(Abs(n), d)
    IN  [num |-> n \div g, den |-> d \div g]

rat_add(a, b) == Rat(a.num * b.den + b.num * a.den, a.den * b.den)

rat_div(a, k) == Rat(a.num, a.den * k)

rat_lt(a, b) == a.num * b.den < b.num * a.den

\* ord(c) for the characters up to U+00FF that a string of the model can
\* hold: all but the grave accent U+0060.  LowChars holds the characters
\* U+0001 to U+005F and HighChars the characters U+0061 to U+00FF, both in
\* code point order; a character of neither (one above U+00FF) has no code
\* point in the model.
LowChars == "\t\n\f\r !\"#$%&'()*+,-./0123456789:;<=>?@ABCDEFGHIJKLMNOPQRSTUVWXYZ[\\]^_"

HighChars == "abcdefghijklmnopqrstuvwxyz{|}~ ¡¢£¤¥¦§¨©ª«¬­®¯°±²³´µ¶·¸¹º»¼½¾¿ÀÁÂÃÄÅÆÇÈÉÊËÌÍÎÏÐÑÒÓÔÕÖ×ØÙÚÛÜÝÞßàáâãäåæçèéêëìíîïðñòóôõö÷øùúûüýþÿ"

NoCodePoint == CHOOSE n \in {} : TRUE

CodePoint(c) ==
    LET lo == str_find(LowChars, c)
        hi == str_find(HighChars, c)
    IN  IF lo # 0 THEN lo
        ELSE IF hi # 0 THEN 96 + hi
        ELSE NoCodePoint

\* a < b on strings: by code point at the first position where they differ.
str_lt(a, b) ==
    LET n == IF Len(a) < Len(b) THEN Len(a) ELSE Len(b)
        diff == { i \in 1..n : Char(a, i) # Char(b, i) }
    IN  IF diff = {} THEN Len(a) < Len(b)
        ELSE CodePoint(Char(a, SetMin(diff))) < CodePoint(Char(b, SetMin(diff)))

\* The strings of the set S in ascending order.
RECURSIVE sorted_strings(_)
sorted_strings(S) ==
    IF S = {} THEN <<>>
    ELSE LET least == CHOOSE x \in S : \A y \in S \ {x} : str_lt(x, y)
         IN  << least >> \o sorted_strings(S \ {least})

RECURSIVE SumSeq(_)
SumSeq(seq) == IF seq = <<>> THEN 0 ELSE Head(seq) + SumSeq(Tail(seq))

\* The three rating columns named in the agg dict.
RatingColumns ==
    << "Delivery_punctuality", "Quality_of_goods", "Contract_term_compliance" >>

\* What df.groupby raises for a column the frame does not have.
KeyError(key) == [kind |-> "KeyError", key |-> key]

\* pd.DataFrame(vendor_data): the columns are the keys of the rows, so a
\* table with no rows has no columns.
DataFrame(data) ==
    [columns |-> UNION { DOMAIN data[i] : i \in 1..Len(data) }, rows |-> data]

\* The values of column col in the rows of vendor name, in row order.
group_values(df, name, col) ==
    LET rows == SelectSeq(df.rows, LAMBDA row : row.Vendor_name = name)
    IN  [i \in 1..Len(rows) |-> rows[i][col]]

\* 'mean' of a non-empty group column.
mean(values) == Rat(SumSeq(values), Len(values))

\* df.groupby('Vendor_name').agg({...: 'mean'}).reset_index(): one row per
\* vendor name, the names in ascending order (groupby sorts its keys).
groupby_mean(df) ==
    LET names == sorted_strings({ df.rows[i].Vendor_name : i \in 1..Len(df.rows) })
    IN  [g \in 1..Len(names) |->
           [Vendor_name |-> names[g],
            Delivery_punctuality |-> mean(group_values(df, names[g], RatingColumns[1])),
            Quality_of_goods |-> mean(group_values(df, names[g], RatingColumns[2])),
            Contract_term_compliance |-> mean(group_values(df, names[g], RatingColumns[3]))]]

\* (Delivery_punctuality + Quality_of_goods + Contract_term_compliance) / 3
overall_score(row) ==
    rat_div(rat_add(rat_add(row.Delivery_punctuality, row.Quality_of_goods),
                    row.Contract_term_compliance), 3)

\* vendor_scores['Overall_score'] = ...
with_overall_score(scores) ==
    [g \in 1..Len(scores) |->
       [Vendor_name |-> scores[g].Vendor_name,
        Delivery_punctuality |-> scores[g].Delivery_punctuality,
        Quality_of_goods |-> scores[g].Quality_of_goods,
        Contract_term_compliance |-> scores[g].Contract_term_compliance,
        Overall_score |-> overall_score(scores[g])]]

\* The orders of 1..n that put the scores in descending order.
DescendingOrders(scores) ==
    { p \in [1..Len(scores) -> 1..Len(scores)] :
        /\ \A i, j \in 1..Len(scores) : i # j => p[i] # p[j]
        /\ \A i, j \in 1..Len(scores) :
              i < j => ~rat_lt(scores[p[i]].Overall_score, scores[p[j]].Overall_score) }

\* vendor_scores.sort_values('Overall_score', ascending=False): the sort is the
\* default kind='quicksort', which makes no promise about the order of rows
\* with equal scores; every descending order is an outcome.
sort_values(scores) ==
    { [i \in 1..Len(scores) |-> scores[p[i]]] : p \in DescendingOrders(scores) }

\* The outcomes of analyze_vendor_data(vendor_data): the KeyError that
\* groupby or agg raises for a missing column, or the sorted score table
\* returned, [kind |-> "DataFrame", rows |-> its rows in order].
analyze_vendor_data(data) ==
    LET df == DataFrame(data)
        missing == { c \in {"Vendor_name"} \cup { RatingColumns[i] : i \in 1..3 } :
                       c \notin df.columns }
    IN  IF "Vendor_name" \in missing THEN { KeyError("Vendor_name") }
        ELSE IF missing # {} THEN { KeyError(CHOOSE c \in missing : TRUE) }
        ELSE { [kind |-> "DataFrame", rows |-> rows] :
                 rows \in sort_values(with_overall_score(groupby_mean(df))) }

\* Number of rows a rating table of the model holds at most.
MaxRows == 6

\* Vendor names of the model's tables, as load_vendor_data names them.
VendorNames == { "Vendor A", "Vendor B" }

\* Ratings of one row: the two rows of the specification's example and one
\* with values outside 1..10.
RatingTriples == { << 10, 10, 10 >>, << 1, 1, 1 >>, << 0, 12, 18 >> }

\* One row of the table, with the columns analyze_vendor_data reads.
vendor_row(name, ratings) ==
    [Vendor_name |-> name,
     Delivery_punctuality |-> ratings[1],
     Quality_of_goods |-> ratings[2],
     Contract_term_compliance |-> ratings[3]]

InitVendors ==
    /\ initialized = FALSE
    /\ current_stage = None
    /\ progress = EmptyDict
    /\ sample_input = <<>>
    /\ use_sample_bids = FALSE
    /\ input_data = ""
    /\ pc = "idle"
    /\ last_run = "none"
    /\ calls = 0
    /\ response = <<>>
    /\ bid_data = ""
    /\ bids = <<>>
    /\ bid_phase = "input"
    /\ bid_chart = <<>>
    /\ vendor_data = <<>>
    /\ vendor_scores = <<>>
    /\ vendor_phase = "input"
    /\ prompt_calls = <<>>

\* data.append({...}): one more row in the table.
AppendRow(name, ratings) ==
    /\ vendor_phase = "input"
    /\ Len(vendor_data) < MaxRows
    /\ vendor_data' = Append(vendor_data, vendor_row(name, ratings))
    /\ UNCHANGED <<vendor_scores, vendor_phase, session_vars, bid_vars, prompt_vars>>

\* vendor_scores = analyze_vendor_data(vendor_data)
AnalyzeVendors ==
    /\ vendor_phase = "input"
    /\ \E outcome \in analyze_vendor_data(vendor_data) : vendor_scores' = outcome
    /\ vendor_phase' = "done"
    /\ UNCHANGED <<vendor_data, session_vars, bid_vars, prompt_vars>>

NextVendors ==
    \/ \E name \in VendorNames, ratings \in RatingTriples : AppendRow(name, ratings)
    \/ AnalyzeVendors

SpecVendors == InitVendors /\ [][NextVendors]_vars

-----------------------------------------------------------------------------
\* get_prompt_template

\* templates["business_to_technical_req"] (lines 433-451).
template_business_to_technical_req ==
    "\n"
    \o "        You are an expert procurement automation agent for TransGlobal Industries.\n"
    \o "        \n"
    \o "        Use the following retrieved context to enhance your analysis:\n"
    \o "        {context}\n"
    \o "        \n"
    \o "        Based on the business requirements provided by the user, convert them into detailed technical requirements.\n"
    \o "        \n"
    \o "        Business Requirements:\n"
    \o "        {question}\n"
    \o "        \n"
    \o "        Your output must include:\n"
    \o "        1. A comprehensive set of functional requirements (specific capabilities and features)\n"
    \o "        2. Non-functional requirements (performance, security, scalability, etc.)\n"
    \o "        3. Technical specifications with appropriate metrics where possible\n"
    \o "        4. Constraints and dependencies that vendors should be aware of\n"
    \o "        \n"
    \o "        Format your response in markdown with clear sections. Be specific, measurable, and precise.\n"
    \o "        "

\* templates["rfp_generation"] (lines 453-473).
template_rfp_generation ==
    "\n"
    \o "        You are an expert procurement automation agent for TransGlobal Industries.\n"
    \o "        \n"
    \o "        Use the following retrieved context to enhance your RFP document:\n"
    \o "        {context}\n"
    \o "        \n"
    \o "        Based on the technical requirements provided by the user, generate a complete Request for Proposal (RFP) document.\n"
    \o "        \n"
    \o "        Technical Requirements:\n"
    \o "        {question}\n"
    \o "        \n"
    \o "        Your RFP must include:\n"
    \o "        1. Project overview and objectives\n"
    \o "        2. Detailed technical specifications and requirements\n"
    \o "        3. Expected deliverables and timeline\n"
    \o "        4. Evaluation criteria and vendor qualifications\n"
    \o "        5. Submission guidelines and deadlines\n"
    \o "        6. Terms and conditions\n"
    \o "        \n"
    \o "        Format your response as a professional RFP document using markdown. Be comprehensive and avoid ambiguity.\n"
    \o "        "

\* templates["vendor_matching"] (lines 475-493).
template_vendor_matching ==
    "\n"
    \o "        You are an expert procurement automation agent for TransGlobal Industries.\n"
    \o "        \n"
    \o "        Use the following retrieved context to enhance your vendor analysis:\n"
    \o "        {context}\n"
    \o "        \n"
    \o "        Based on the technical requirements and historical vendor data provided, identify and rank suitable vendors.\n"
    \o "        \n"
    \o "        Requirements and Vendor Data:\n"
    \o "        {question}\n"
    \o "        \n"
    \o "        Your analysis must include:\n"
    \o "        1. Top 3-5 recommended vendors with rankings\n"
    \o "        2. Justification for each selection based on historical performance\n"
    \o "        3. Alignment between vendor capabilities and project requirements\n"
    \o "        4. Potential risks and considerations for each recommended vendor\n"
    \o "        \n"
    \o "        Format your response in markdown with clear sections. Provide objective analysis without personal bias.\n"
    \o "        "

\* templates["tender_email"] (lines 495-514).
template_tender_email ==
    "\n"
    \o "        You are an expert procurement automation agent for TransGlobal Industries.\n"
    \o "        \n"
    \o "        Use the following retrieved context to enhance your email:\n"
    \o "        {context}\n"
    \o "        \n"
    \o "        Based on the RFP document and vendor information provided, generate a professional email to accompany the tender document.\n"
    \o "        \n"
    \o "        RFP and Vendor Information:\n"
    \o "        {question}\n"
    \o "        \n"
    \o "        Your email must:\n"
    \o "        1. Be professionally formatted with proper salutation and closing\n"
    \o "        2. Clearly introduce the procurement opportunity\n"
    \o "        3. Provide key dates and submission instructions\n"
    \o "        4. Include contact information for queries\n"
    \o "        5. Maintain TransGlobal Industries' professional tone and branding\n"
    \o "        \n"
    \o "        Write a complete, ready-to-send email that is clear, concise, and professional.\n"
    \o "        "

\* templates["bid_evaluation"] (lines 516-534).
template_bid_evaluation ==
    "\n"
    \o "        You are an expert procurement automation agent for TransGlobal Industries.\n"
    \o "        \n"
    \o "        Use the following retrieved context to enhance your bid evaluation:\n"
    \o "        {context}\n"
    \o "        \n"
    \o "        Based on the bid information provided, evaluate and rank the vendor proposals.\n"
    \o "        \n"
    \o "        Bid Information:\n"
    \o "        {question}\n"
    \o "        \n"
    \o "        Your evaluation must include:\n"
    \o "        1. Comparative analysis of all bids received\n"
    \o "        2. Scoring for each bid against key criteria (price, quality, timeline, capabilities)\n"
    \o "        3. Identification of the top two options with detailed justification\n"
    \o "        4. Strengths and weaknesses of each bid\n"
    \o "        \n"
    \o "        Format your response in markdown with clear sections and tables where appropriate. Provide objective analysis.\n"
    \o "        "

\* templates["negotiation_strategy"] (lines 536-555).
template_negotiation_strategy ==
    "\n"
    \o "        You are an expert procurement automation agent for TransGlobal Industries.\n"
    \o "        \n"
    \o "        Use the following retrieved context to enhance your negotiation strategy:\n"
    \o "        {context}\n"
    \o "        \n"
    \o "        Based on the top two bids provided, develop a negotiation strategy including BATNA analysis.\n"
    \o "        \n"
    \o "        Bid Information:\n"
    \o "        {question}\n"
    \o "        \n"
    \o "        Your strategy must include:\n"
    \o "        1. BATNA determination for each negotiation\n"
    \o "        2. Key negotiation points and desired outcomes\n"
    \o "        3. Potential concessions and their value\n"
    \o "        4. Recommended approaches and tactics\n"
    \o "        5. Alternative options if negotiations fail\n"
    \o "        \n"
    \o "        Format your response in markdown with clear, actionable recommendations. Be strategic and thorough.\n"
    \o "        "

\* templates["risk_contract"] (lines 557-576).
template_risk_contract ==
    "\n"
    \o "        You are an expert procurement automation agent for TransGlobal Industries.\n"
    \o "        \n"
    \o "        Use the following retrieved context to enhance your risk assessment and contract draft:\n"
    \o "        {context}\n"
    \o "        \n"
    \o "        Based on the vendor and bid information provided, assess risks and draft key contract components.\n"
    \o "        \n"
    \o "        Vendor and Bid Information:\n"
    \o "        {question}\n"
    \o "        \n"
    \o "        Your output must include:\n"
    \o "        1. Comprehensive risk assessment identifying potential issues\n"
    \o "        2. Risk mitigation strategies and contingency plans\n"
    \o "        3. Key contract clauses to address identified risks\n"
    \o "        4. Performance metrics and SLAs to include in the contract\n"
    \o "        5. Dispute resolution mechanisms and termination conditions\n"
    \o "        \n"
    \o "        Format your response in markdown with clear sections. Be thorough and focus on protecting TransGlobal Industries' interests.\n"
    \o "        "
\* The dict templates of get_prompt_template.
templates ==
    [k \in StageKeys |->
       CASE k = "business_to_technical_req" -> template_business_to_technical_req
         [] k = "rfp_generation" -> template_rfp_generation
         [] k = "vendor_matching" -> template_vendor_matching
         [] k = "tender_email" -> template_tender_email
         [] k = "bid_evaluation" -> template_bid_evaluation
         [] k = "negotiation_strategy" -> template_negotiation_strategy
         [] k = "risk_contract" -> template_risk_contract]

\* Mutant: the lookup is lost, every key gets the default template.
get_prompt_template_default_only(stage) ==
    [template |-> templates["business_to_technical_req"],
     input_variables |-> << "context", "question" >>]

\* PromptTemplate(template=templates.get(stage, templates[
\* "business_to_technical_req"]), input_variables=["context", "question"])
get_prompt_template(stage) ==
    [template |-> IF stage \in DOMAIN templates
                  THEN templates[stage]
                  ELSE templates["business_to_technical_req"],
     input_variables |-> << "context", "question" >>]

\* Number of calls of get_prompt_template a behaviour holds.
MaxPromptCalls == 2

\* Keys a caller may pass: the seven stage ids, no stage (None), and strings
\* that are not stage ids.
PromptKeys == StageKeys \cup { None, "", "RFP_GENERATION", "contract" }

InitPrompts ==
    /\ initialized = FALSE
    /\ current_stage = None
    /\ progress = EmptyDict
    /\ sample_input = <<>>
    /\ use_sample_bids = FALSE
    /\ input_data = ""
    /\ pc = "idle"
    /\ last_run = "none"
    /\ calls = 0
    /\ response = <<>>
    /\ bid_data = ""
    /\ bids = <<>>
    /\ bid_phase = "input"
    /\ bid_chart = <<>>
    /\ vendor_data = <<>>
    /\ vendor_scores = <<>>
    /\ vendor_phase = "input"
    /\ prompt_calls = <<>>

\* prompt = get_prompt_template(stage)
GetPromptTemplate(stage) ==
    /\ Len(prompt_calls) < MaxPromptCalls
    /\ prompt_calls' = Append(prompt_calls,
                              [stage |-> stage, prompt |-> get_prompt_template(stage)])
    /\ UNCHANGED <<session_vars, bid_vars, vendor_vars>>

NextPrompts == \E stage \in PromptKeys : GetPromptTemplate(stage)

SpecPrompts == InitPrompts /\ [][NextPrompts]_vars

-----------------------------------------------------------------------------
\* The stage graph as the specification declares it.

\* The stage that precedes S in its chain (None for the two chain heads).
ChainPredecessor(S) ==
    CASE S = "rfp_generation" -> "business_to_technical_req"
      [] S = "vendor_matching" -> "rfp_generation"
      [] S = "tender_email" -> "vendor_matching"
      [] S = "negotiation_strategy" -> "bid_evaluation"
      [] S = "risk_contract" -> "negotiation_strategy"
      [] OTHER -> None

\* Every stage whose output the input of S is declared to be built from.
DeclaredPredecessors(S) ==
    CASE S = "tender_email" -> {"rfp_generation", "vendor_matching"}
      [] S = "risk_contract" -> {"bid_evaluation", "negotiation_strategy"}
      [] ChainPredecessor(S) # None -> {ChainPredecessor(S)}
      [] OTHER -> {}

StagesWithPredecessor == { S \in StageKeys : ChainPredecessor(S) # None }

Indent12 == "            "

\* The text the input of S is declared to start with, given the stored outputs.
DeclaredConcatenation(S, prog) ==
    CASE S = "tender_email" ->
           "\n" \o Indent12 \o "RFP Document:\n"
                \o Indent12 \o prog["rfp_generation"] \o "\n"
                \o Indent12 \o "\n"
                \o Indent12 \o "Selected Vendors:\n"
                \o Indent12 \o prog["vendor_matching"] \o "\n"
                \o Indent12
      [] S = "risk_contract" ->
           "\n" \o Indent12 \o "Bid Information:\n"
                \o Indent12 \o prog["bid_evaluation"] \o "\n"
                \o Indent12 \o "\n"
                \o Indent12 \o "Negotiation Strategy:\n"
                \o Indent12 \o prog["negotiation_strategy"] \o "\n"
                \o Indent12
      [] OTHER -> prog[ChainPredecessor(S)]

\* A step in which the user moves from another stage (or none) to stage S.
SelectedAfresh(S) ==
    /\ pc' = "idle"
    /\ current_stage # S
    /\ current_stage' = S

\* C1 (as claimed): whenever a stage S with a declared predecessor is selected
\* while the stage before it in its chain has a stored output, the input of S
\* starts as the declared concatenation of the stored predecessor outputs.
C1_AsClaimed ==
    [][ \A S \in StagesWithPredecessor :
          SelectedAfresh(S) /\ ChainPredecessor(S) \in DOMAIN progress
          => /\ DeclaredPredecessors(S) \subseteq DOMAIN progress
             /\ input_data' = DeclaredConcatenation(S, progress) ]_vars

\* C1 (amended): whenever a stage S with a declared predecessor is selected
\* while every declared predecessor of S has a stored output, the input of S
\* starts as exactly the declared concatenation of those stored outputs, and
\* no stored output changes in that step.
C1_SeedIsDeclaredConcatenation ==
    [][ \A S \in StagesWithPredecessor :
          SelectedAfresh(S) /\ DeclaredPredecessors(S) \subseteq DOMAIN progress
          => /\ input_data' = DeclaredConcatenation(S, progress)
             /\ progress' = progress ]_vars

\* C1 witness: tender_email is current, seeded from two different stored outputs.
C1_Witness ==
    /\ current_stage = "tender_email" /\ last_run = "render"
    /\ {"rfp_generation", "vendor_matching"} \subseteq DOMAIN progress
    /\ progress["rfp_generation"] # progress["vendor_matching"]
    /\ progress["rfp_generation"] # ""
    /\ input_data = DeclaredConcatenation("tender_email", progress)

\* C2: whenever a stage S with a declared predecessor is selected while a
\* declared predecessor has no entry in progress, the input of S starts empty;
\* so an input that starts non-empty has every declared predecessor stored.
C2_PrefillOnlyFromStoredPredecessor ==
    [][ \A S \in StagesWithPredecessor :
          SelectedAfresh(S)
          => /\ ~(DeclaredPredecessors(S) \subseteq DOMAIN progress)
                  => input_data' = ""
             /\ input_data' # ""
                  => /\ DeclaredPredecessors(S) \subseteq DOMAIN progress
                     /\ input_data' = DeclaredConcatenation(S, progress) ]_vars

\* C2 witness: vendor_matching is stored, rfp_generation is not, tender_email
\* has just been selected and its input is empty.
C2_Witness ==
    /\ current_stage = "tender_email" /\ last_run = "render"
    /\ "vendor_matching" \in DOMAIN progress
    /\ progress["vendor_matching"] # ""
    /\ "rfp_generation" \notin DOMAIN progress
    /\ input_data = ""

\* C3: a processing attempt whose collaborator call raises leaves progress
\* exactly as it was before the attempt, and current_stage too.
C3_FailureLeavesProgressUnchanged ==
    [][ pc = "calling" /\ last_run' = "process_error"
        => progress' = progress /\ current_stage' = current_stage ]_vars

\* C3 witness: a failed attempt on a stage that has no entry, and one on a
\* stage that keeps the entry it had.
C3_Witness ==
    /\ last_run = "process_error" /\ calls = 1
    /\ current_stage \notin DOMAIN progress
    /\ DOMAIN progress # {}

\* C4: when the collaborator returns, progress[current stage] becomes exactly
\* the returned text, whatever was stored before, all other entries staying;
\* so storing the text that is already stored changes nothing.
C4_SuccessStoresResponse ==
    [][ pc = "calling" /\ last_run' = "process_ok"
        => /\ response' # <<>>
           /\ current_stage \in DOMAIN progress'
           /\ progress'[current_stage] = response'[1]
           /\ DOMAIN progress' = DOMAIN progress \cup {current_stage}
           /\ \A k \in DOMAIN progress \ {current_stage} : progress'[k] = progress[k]
           /\ (current_stage \in DOMAIN progress
                 /\ progress[current_stage] = response'[1]
               => progress' = progress) ]_vars

\* C4 witness: a stage processed again stores the second, different response.
C4_Witness ==
    /\ last_run = "process_ok" /\ response # <<>>
    /\ response[1] = ResponsePool[1]
    /\ progress[current_stage] = ResponsePool[1]
    /\ \E k \in DOMAIN progress : progress[k] = ResponsePool[2]

\* C5: pressing Process while the input text is empty issues no collaborator
\* call, changes no entry of progress and ends the run without an error.
C5_EmptyInputNotProcessed ==
    [][ last_run' = "process" /\ input_data' = ""
        => /\ calls' = 0
           /\ pc' = "idle"
           /\ progress' = progress
           /\ response' = <<>> ]_vars

\* C5 witness: Process was pressed with empty input on a stage already stored.
C5_Witness ==
    /\ last_run = "process" /\ input_data = "" /\ pc = "idle" /\ calls = 0
    /\ current_stage \in DOMAIN progress

\* C6: a stage that has an entry in progress has one in every later state,
\* and a stage whose processing succeeded has an entry.
C6_EntriesNeverRemoved ==
    [][ /\ DOMAIN progress \subseteq DOMAIN progress'
        /\ (last_run' = "process_ok" /\ pc = "calling"
              => current_stage' \in DOMAIN progress') ]_vars

\* C6 witness: all seven stages have an entry.
C6_Witness ==
    /\ DOMAIN progress = StageKeys
    /\ last_run = "render"

\* C7: between script runs every one of the seven stages can be selected,
\* text can be typed into the current stage's input and Process can be
\* pressed, whatever is stored; a pending collaborator call can return.
C7_NoTerminalState ==
    [](/\ initialized /\ pc = "idle"
          => /\ \A s \in StageKeys : ENABLED SelectStage(s)
             /\ current_stage # None
                  => /\ ENABLED ProcessPress
                     /\ \E t \in UserTexts : t # "" /\ (input_data = t \/ ENABLED EditInput(t))
       /\ pc = "calling" => \A reply \in Responses : ENABLED CollaboratorReturn(reply))

\* C7 witness: every stage is stored and the last stage has just been processed.
C7_Witness ==
    /\ DOMAIN progress = StageKeys
    /\ current_stage = "risk_contract"
    /\ last_run = "process_ok"

\* The seed of stage S when the stored outputs are prog.
Seed(S, prog) == text_area(S, prog, sample_input, use_sample_bids).value

FirstChain ==
    {"business_to_technical_req", "rfp_generation", "vendor_matching", "tender_email"}

SecondChain == {"bid_evaluation", "negotiation_strategy", "risk_contract"}

\* prog with the entries of the stages in K removed.
Without(prog, K) == [k \in DOMAIN prog \ K |-> prog[k]]

\* The chain other than the one stage S belongs to.
OtherChain(S) == IF S \in FirstChain THEN SecondChain ELSE FirstChain

\* C8: in every reachable state the seed of each stage is what it would be
\* with no output of the other chain stored, and the input of the current
\* stage is that seed or text the user typed.  The reachable states hold every
\* combination of stored outputs, so the seed of a stage is a function of its
\* own chain's outputs alone.
C8_ChainsIndependent ==
    /\ \A S \in StageKeys : Seed(S, progress) = Seed(S, Without(progress, OtherChain(S)))
    /\ current_stage # None
         => input_data \in
              UserTexts \cup {Seed(current_stage, Without(progress, OtherChain(current_stage)))}

\* C8 witness: both chains have stored outputs and a stage of each is seeded.
C8_Witness ==
    /\ {"tender_email", "bid_evaluation", "vendor_matching"} \subseteq DOMAIN progress
    /\ progress["tender_email"] # progress["bid_evaluation"]
    /\ current_stage = "negotiation_strategy"
    /\ input_data = progress["bid_evaluation"]
    /\ input_data # ""

\* A script run has entered the Process block: it is inside the call, or it
\* has ended after the guard of the block held.
EnteredProcessBlock ==
    \/ pc = "calling"
    \/ last_run \in {"process_ok", "process_error"}
    \/ last_run = "process" /\ process_guard(input_data)

\* C9 as stated: every Process action that has entered the Process block and
\* ended has performed exactly one collaborator call.
C9_EveryProcessActionCalls ==
    EnteredProcessBlock /\ pc = "idle" => calls = 1

\* C9: a Process action issues at most one collaborator call: exactly one
\* when its run reaches process_procurement_stage, none when an event ends the
\* run inside the animation before it; the step that issues the call changes
\* no session state; progress changes only in the step in which the call
\* returns, and a run that a browser event ends while its call is pending
\* stores nothing; a call that raises is not issued again.  The script does
\* not keep the user from selecting or processing a stage while a call is
\* pending: the stage buttons and the Process button stay enabled.
C9_OneBlockingCall ==
    /\ [](/\ calls \in {0, 1}
          /\ (pc = "calling" \/ last_run \in {"process_ok", "process_error"}) => calls = 1
          /\ (pc = "idle" /\ last_run \in {"none", "render", "process"}) => calls = 0
          /\ pc = "calling" => /\ ENABLED ProcessPress
                               /\ \A s \in StageKeys : ENABLED SelectStage(s))
    /\ [][ /\ pc' = "calling"
             => /\ progress' = progress
                /\ current_stage' = current_stage
                /\ sample_input' = sample_input
           /\ progress' # progress
             => /\ pc = "calling" /\ pc' = "idle"
                /\ last_run' = "process_ok" /\ response' # <<>>
           /\ (pc = "calling" /\ last_run' \in {"render", "process"})
             => progress' = progress /\ response' = <<>>
           /\ last_run' = "process_error"
             => pc = "calling" /\ pc' = "idle" /\ calls' = calls ]_vars

\* C9 witness: a call is pending while other stages already have entries.
C9_Witness ==
    /\ pc = "calling" /\ calls = 1
    /\ DOMAIN progress # {}
    /\ current_stage \notin DOMAIN progress

\* The records of seq whose sort key is v, in their order in seq.
WithKey(seq, v) == SelectSeq(seq, LAMBDA x : price_key(x) = v)

\* C10: analyze_bids returns its records in ascending order of price, a record
\* with no price counting as +infinity (no record is followed by one with a
\* smaller price), and records with equal price keep their order of
\* appearance in the input.
C10_AscendingStable ==
    bid_phase = "done"
    => /\ \A i, j \in 1..Len(bids) :
            i < j => ~float_lt(price_key(bids[j]), price_key(bids[i]))
       /\ \A i \in 1..Len(bids) :
            price_key(bids[i]).kind # "nan"
            => WithKey(bids, price_key(bids[i]))
                 = WithKey(bid_list(bid_data), price_key(bids[i]))

\* The example of the specification: two bids, the cheaper one second in the
\* text, come out as [Zeta(500), Acme(1000)].
BidExampleOrdered ==
    bid_phase = "done"
      /\ bid_data = "Bid 1: Acme\nTotal Cost: $1,000\n\nBid 2: Zeta\nTotal Cost: $500"
    => /\ Len(bids) = 2
       /\ bids[1].vendor = "Zeta" /\ bids[1].price = Finite(500, 0)
       /\ bids[2].vendor = "Acme" /\ bids[2].price = Finite(1000, 0)

-----------------------------------------------------------------------------
\* What the text of one record says about its price and vendor, read from the
\* record's raw text.

\* The chunk a record was built from: its raw text without the leading marker.
Chunk(r) == SubSeq(r.raw_text, 4, Len(r.raw_text))

HasTotalCostLine(r) == str_contains(Chunk(r), "Total Cost:")

\* The first line of the chunk that holds the marker "Total Cost:".
TotalCostLine(r) ==
    LET lines == str_split(Chunk(r), "\n")
        k == SetMin({ i \in 1..Len(lines) : str_contains(lines[i], "Total Cost:") })
    IN  lines[k]

\* The text between the first and the second "$" of that line, commas
\* removed; <<>> when the line has no "$".
AmountText(r) ==
    LET line == TotalCostLine(r)
        d == str_find(line, "$")
        rest == SubSeq(line, d + 1, Len(line))
        d2 == str_find(rest, "$")
        amount == IF d2 = 0 THEN rest ELSE SubSeq(rest, 1, d2 - 1)
    IN  IF d = 0 THEN <<>>
        ELSE << str_replace(amount, ",", "") >>

\* The value after the currency symbol fails to parse as a number.
ParseFails(r) ==
    /\ HasTotalCostLine(r)
    /\ \/ AmountText(r) = <<>>
       \/ float(AmountText(r)[1]).kind = "error"

\* The price of the record could not be parsed: no price line, or one whose
\* value fails to parse.
PriceUnparsed(r) == ~HasTotalCostLine(r) \/ ParseFails(r)

\* The record carries a real price parsed from its text.
PriceParsed(r) ==
    /\ HasTotalCostLine(r)
    /\ AmountText(r) # <<>>
    /\ float(AmountText(r)[1]).kind = "finite"

\* analyze_bids(text) is a list of records, each with its raw text and none
\* holding an error in place of a price: the call returned and nothing was
\* raised out of it.
Returns(text) ==
    LET result == analyze_bids(text)
    IN  \A i \in 1..Len(result) :
           /\ "raw_text" \in DOMAIN result[i]
           /\ "price" \in DOMAIN result[i] => result[i].price.kind # "error"

\* C11: in the list analyze_bids returns, every record whose price could not
\* be parsed (no "Total Cost:" line, or a "Total Cost:" line whose value is
\* not a parsable number) comes after every record with a real parsed price.
C11_UnparsedSortLast ==
    bid_phase = "done"
    => \A i, j \in 1..Len(bids) :
          PriceParsed(bids[i]) /\ PriceUnparsed(bids[j]) => i < j

\* The text after the currency symbol is a number: float() reads a finite
\* value from it.
NumericText(t) == float(t).kind = "finite"

\* C12: on every text analyze_bids returns without an error, and every record
\* built from a chunk with a "Total Cost:" line whose value cannot be parsed
\* as a number (no "$" on the line, or text after it that, commas removed, is
\* not a number) has the price 0.
C12_UnparsableGivesZero ==
    /\ Returns(bid_data)
    /\ bid_phase = "done"
         => \A i \in 1..Len(bids) :
               /\ HasTotalCostLine(bids[i])
               /\ AmountText(bids[i]) = <<>> \/ ~NumericText(AmountText(bids[i])[1])
               => /\ "price" \in DOMAIN bids[i]
                  /\ bids[i].price = Finite(0, 0)

\* What holds of the code: every record built from a chunk with a
\* "Total Cost:" line has a price, and when the line has no "$" or float()
\* rejects the text after it, the price is exactly 0.
FloatErrorGivesZero ==
    /\ Returns(bid_data)
    /\ bid_phase = "done"
         => \A i \in 1..Len(bids) :
               HasTotalCostLine(bids[i])
               => /\ "price" \in DOMAIN bids[i]
                  /\ bids[i].price.kind # "error"
                  /\ ParseFails(bids[i]) => bids[i].price = Finite(0, 0)

\* Both failures happen: a record whose price line has no "$" and one whose
\* text after "$" float() rejects; both have price 0.
FloatErrorGivesZero_Witness ==
    /\ bid_phase = "done"
    /\ \E i, j \in 1..Len(bids) :
          /\ HasTotalCostLine(bids[i]) /\ AmountText(bids[i]) = <<>>
          /\ bids[i].price = Finite(0, 0)
          /\ HasTotalCostLine(bids[j]) /\ AmountText(bids[j]) # <<>>
          /\ float(AmountText(bids[j])[1]).kind = "error"
          /\ bids[j].price = Finite(0, 0)

\* The chunks of the text that the loop keeps, in order.
RetainedChunks(text) ==
    SelectSeq(str_split(text, "Bid"),
              LAMBDA c : \E i \in 1..Len(c) : Char(c, i) \notin Whitespace)

\* Number of positions of seq that hold a member of S.
CountIn(seq, S) == Cardinality({ i \in 1..Len(seq) : seq[i] \in S })

\* C13: analyze_bids returns (it does not raise), every retained chunk that
\* has no "Total Cost:" line has its record in the result, and the price of
\* such a record is absent or zero.
C13_NoPriceLineStillRecorded ==
    /\ Returns(bid_data)
    /\ bid_phase = "done"
         => LET chunks == RetainedChunks(bid_data)
            IN  \A k \in 1..Len(chunks) :
                   ~str_contains(chunks[k], "Total Cost:")
                   => /\ CountIn(chunks, {chunks[k]})
                         = CountIn([i \in 1..Len(bids) |-> bids[i].raw_text],
                                   {"Bid" \o chunks[k]})
                      /\ \A i \in 1..Len(bids) :
                            bids[i].raw_text = "Bid" \o chunks[k]
                            => \/ "price" \notin DOMAIN bids[i]
                               \/ bids[i].price = Finite(0, 0)

\* C13 witness: a chunk with a "Lead Time:" line and no "Total Cost:" line
\* was analyzed next to a priced one; its record has no price.
C13_Witness ==
    /\ bid_phase = "done"
    /\ \E i, j \in 1..Len(bids) :
          /\ ~HasTotalCostLine(bids[i])
          /\ "delivery_time" \in DOMAIN bids[i]
          /\ "price" \notin DOMAIN bids[i]
          /\ PriceParsed(bids[j])

\* C14: for every input text analyze_bids returns, and the records returned
\* correspond one to one to the chunks of the split on "Bid" that are neither
\* empty nor whitespace only: as many records as such chunks, each chunk
\* (with the marker put back) the raw text of as many records as the times it
\* occurs, and no record for an empty or whitespace-only chunk.
C14_OneRecordPerChunk ==
    /\ Returns(bid_data)
    /\ bid_phase = "done"
         => LET chunks == RetainedChunks(bid_data)
                raws == [i \in 1..Len(bids) |-> bids[i].raw_text]
            IN  /\ Len(bids) = Len(chunks)
                /\ \A k \in 1..Len(chunks) :
                      CountIn(chunks, {chunks[k]}) = CountIn(raws, {"Bid" \o chunks[k]})
                /\ \A i \in 1..Len(bids) :
                      \E k \in 1..Len(Chunk(bids[i])) :
                          Char(Chunk(bids[i]), k) \notin Whitespace

\* C14 witness: a text with an empty chunk before the first marker, a
\* whitespace-only chunk, a chunk with no vendor and no price, and a priced
\* chunk gave two records.
C14_Witness ==
    /\ bid_phase = "done"
    /\ Len(str_split(bid_data, "Bid")) = 4
    /\ Len(bids) = 2
    /\ \E i \in 1..2 : DOMAIN bids[i] = {"raw_text", "delivery_time"}
    /\ \E i \in 1..2 : PriceParsed(bids[i])

\* The empty text gives the empty list.
C14_EmptyText == bid_phase = "done" /\ bid_data = "" => bids = <<>>

\* C18: for every record returned, when the first line of its chunk contains
\* ":" the vendor is the rest of that line after the first ":", trimmed (the
\* whole remainder, further ":" included); when the first line has no ":" the
\* record has no vendor.
C18_VendorIsRestOfFirstLine ==
    bid_phase = "done"
    => \A i \in 1..Len(bids) :
          LET first == str_split(Chunk(bids[i]), "\n")[1]
              c == str_find(first, ":")
          IN  IF c = 0
              THEN "vendor" \notin DOMAIN bids[i]
              ELSE /\ "vendor" \in DOMAIN bids[i]
                   /\ bids[i].vendor = str_strip(SubSeq(first, c + 1, Len(first)))

-----------------------------------------------------------------------------
\* The stages whose input is built from two stored outputs.
TwoPredecessorStages == { S \in StageKeys : Cardinality(DeclaredPredecessors(S)) = 2 }

\* C20: when tender_email or risk_contract is selected, its input is seeded
\* (non-empty, the concatenation of both outputs) if and only if both of its
\* predecessors have an entry in progress; with exactly one of the two stored
\* the input starts empty and the label is the one of the unseeded area, so
\* the stored output is not shown.
C20_SeededIffBothStored ==
    [][ \A S \in TwoPredecessorStages :
          SelectedAfresh(S)
          => LET stored == DeclaredPredecessors(S) \cap DOMAIN progress
                 area == text_area(S, progress', sample_input', use_sample_bids')
             IN  /\ input_data' = area.value
                 /\ (input_data' # "") <=> (Cardinality(stored) = 2)
                 /\ Cardinality(stored) = 2
                      => input_data' = DeclaredConcatenation(S, progress)
                 /\ Cardinality(stored) = 1
                      => /\ input_data' = ""
                         /\ area.label \in {"Enter RFP and Vendor Information:",
                                            "Enter Vendor and Bid Information:"} ]_vars

\* C20 witness: risk_contract is current with the negotiation strategy stored
\* and no bid evaluation; its input is empty.
C20_Witness ==
    /\ current_stage = "risk_contract" /\ last_run = "render"
    /\ "negotiation_strategy" \in DOMAIN progress
    /\ progress["negotiation_strategy"] # ""
    /\ "bid_evaluation" \notin DOMAIN progress
    /\ input_data = ""

-----------------------------------------------------------------------------
\* The replacement fields of a format string: the names between "{" and "}",
\* in order of appearance.
format_fields(template) ==
    LET parts == str_split(template, "{")
    IN  [i \in 1..(Len(parts) - 1) |->
           SubSeq(parts[i + 1], 1, str_find(parts[i + 1], "}") - 1)]

\* C19: every call of get_prompt_template with one of the seven stage ids
\* returns that stage's template, calls with two different stage ids return
\* two different templates, every call with another key returns the template
\* of business_to_technical_req, and every template returned has the two
\* input variables context and question and exactly the replacement fields
\* {context} and {question}, once each.
C19_OwnTemplateOrDefault ==
    /\ \A i \in 1..Len(prompt_calls) :
          LET call == prompt_calls[i]
          IN  /\ call.stage \in StageKeys => call.prompt.template = templates[call.stage]
              /\ call.stage \notin StageKeys
                   => call.prompt.template = template_business_to_technical_req
              /\ call.prompt.input_variables = << "context", "question" >>
              /\ format_fields(call.prompt.template) = << "context", "question" >>
              /\ Len(str_split(call.prompt.template, "}")) = 3
    /\ \A i, j \in 1..Len(prompt_calls) :
          /\ prompt_calls[i].stage \in StageKeys
          /\ prompt_calls[j].stage \in StageKeys
          /\ prompt_calls[i].stage # prompt_calls[j].stage
          => prompt_calls[i].prompt.template # prompt_calls[j].prompt.template

\* C19 witness: the template of risk_contract was returned for its id, and the
\* default template for a key that is no stage id.
C19_Witness ==
    /\ Len(prompt_calls) = 2
    /\ prompt_calls[1].stage = "risk_contract"
    /\ prompt_calls[1].prompt.template = template_risk_contract
    /\ prompt_calls[2].stage = "contract"
    /\ prompt_calls[2].prompt.template = template_business_to_technical_req
    /\ template_risk_contract # template_business_to_technical_req

-----------------------------------------------------------------------------
\* The rows of the table for one vendor name.
RowsOf(name) == SelectSeq(vendor_data, LAMBDA row : row.Vendor_name = name)

\* The vendor names the table holds.
NamesIn(data) == { data[i].Vendor_name : i \in 1..Len(data) }

\* The sum of column col over the rows of one vendor name.
ColumnSum(name, col) ==
    LET rows == RowsOf(name)
    IN  SumSeq([i \in 1..Len(rows) |-> rows[i][col]])

\* The rating table of the specification's example.
ExampleTable ==
    [i \in 1..6 |-> IF i <= 3 THEN vendor_row("Vendor A", << 10, 10, 10 >>)
                    ELSE vendor_row("Vendor B", << 1, 1, 1 >>)]

\* C15: analyze_vendor_data returns the vendors in descending order of
\* overall score, and vendors with equal overall score in their grouping
\* order (ascending vendor name, the order groupby yields).
C15_DescendingStable ==
    vendor_phase = "done" /\ vendor_scores.kind = "DataFrame"
    => \A i, j \in 1..Len(vendor_scores.rows) :
          i < j
          => LET a == vendor_scores.rows[i]
                 b == vendor_scores.rows[j]
             IN  /\ ~rat_lt(a.Overall_score, b.Overall_score)
                 /\ a.Overall_score = b.Overall_score
                      => str_lt(a.Vendor_name, b.Vendor_name)

\* The example of the specification: three rows (10,10,10) of one vendor and
\* three rows (1,1,1) of another give [A(10.0), B(1.0)].
VendorExampleOrdered ==
    vendor_phase = "done" /\ vendor_data = ExampleTable
    => /\ vendor_scores.kind = "DataFrame"
       /\ Len(vendor_scores.rows) = 2
       /\ vendor_scores.rows[1].Vendor_name = "Vendor A"
       /\ vendor_scores.rows[1].Overall_score = Rat(10, 1)
       /\ vendor_scores.rows[2].Vendor_name = "Vendor B"
       /\ vendor_scores.rows[2].Overall_score = Rat(1, 1)

\* What holds of the order: the overall scores never increase down the table.
VendorScoresDescending ==
    vendor_phase = "done" /\ vendor_scores.kind = "DataFrame"
    => \A i, j \in 1..Len(vendor_scores.rows) :
          i < j => ~rat_lt(vendor_scores.rows[i].Overall_score,
                           vendor_scores.rows[j].Overall_score)

\* C16: analyze_vendor_data on a rating table with no rows returns an empty
\* result and raises no error.
C16_EmptyTableEmptyResult ==
    vendor_phase = "done" /\ vendor_data = <<>>
    => /\ vendor_scores.kind = "DataFrame"
       /\ vendor_scores.rows = <<>>

\* The result is a table with exactly one row per vendor name of the rating
\* table, each row holding the means of that vendor's rows in the three
\* rating columns and, as overall score, the mean of those three means.
OneRowPerVendorWithMeans ==
    /\ vendor_scores.kind = "DataFrame"
    /\ Len(vendor_scores.rows) = Cardinality(NamesIn(vendor_data))
    /\ \A name \in NamesIn(vendor_data) :
          \E i \in 1..Len(vendor_scores.rows) :
             LET row == vendor_scores.rows[i]
                 n == Len(RowsOf(name))
             IN  /\ row.Vendor_name = name
                 /\ \A c \in 1..3 :
                       row[RatingColumns[c]].num * n
                         = ColumnSum(name, RatingColumns[c]) * row[RatingColumns[c]].den
                 /\ row.Overall_score.num * (3 * n)
                       = ( ColumnSum(name, RatingColumns[1])
                         + ColumnSum(name, RatingColumns[2])
                         + ColumnSum(name, RatingColumns[3]) ) * row.Overall_score.den

\* C17: for every rating table analyze_vendor_data returns exactly one row
\* per distinct vendor name, with the three column means of that vendor's
\* rows and their unweighted mean as overall score; ratings outside 1..10
\* enter the means as they are.
C17_OneRowPerVendorWithMeans ==
    vendor_phase = "done" => OneRowPerVendorWithMeans

\* What holds of the code: the same for every rating table with at least one
\* row.
VendorMeansWhenRowsExist ==
    vendor_phase = "done" /\ vendor_data # <<>> => OneRowPerVendorWithMeans

\* A table with ratings outside 1..10 was scored: the overall score of a
\* vendor is above 10.
VendorMeansOutOfRange ==
    /\ vendor_phase = "done" /\ vendor_scores.kind = "DataFrame"
    /\ \E i \in 1..Len(vendor_scores.rows) :
          /\ rat_lt(Rat(10, 1), vendor_scores.rows[i].Quality_of_goods)
          /\ vendor_scores.rows[i].Delivery_punctuality.den = 2

-----------------------------------------------------------------------------
\* Frame of the Process block.

\* A step of processing the current stage: the script run started by the
\* Process button, and the return or the raise of the call it blocks in.
ProcessingStep == last_run' \in {"process", "process_ok", "process_error"}

\* C21: processing a stage, whether the call returns or raises, leaves
\* current_stage as it is and leaves the entry of every other stage as it is:
\* none is added, removed or changed, so the stored output of a successor
\* survives the processing of its predecessor.
C21_ProcessingTouchesOnlyItsStage ==
    [][ ProcessingStep =>
          /\ current_stage' = current_stage
          /\ \A k \in StageKeys \ {current_stage} :
                /\ (k \in DOMAIN progress') = (k \in DOMAIN progress)
                /\ k \in DOMAIN progress => progress'[k] = progress[k] ]_vars

\* rfp_generation has just been processed with success while its successor
\* vendor_matching holds a different stored output.
C21_Witness ==
    /\ last_run = "process_ok"
    /\ current_stage = "rfp_generation"
    /\ {"rfp_generation", "vendor_matching"} \subseteq DOMAIN progress
    /\ progress["rfp_generation"] = response[1]
    /\ progress["vendor_matching"] # progress["rfp_generation"]
-----------------------------------------------------------------------------
\* Frame of stage selection.

\* A script run in which a stage button was clicked and moved the session to
\* another stage, whether or not a call was pending when it was clicked.
StageChanged == initialized /\ current_stage' # current_stage

\* C22: selecting a stage writes the session key current_stage and no other:
\* the stored outputs, the sample input and the initialized flag stay as they
\* are, and the run issues no collaborator call.  The first conjunct covers
\* every run that moves to another stage, the second every run that renders
\* the page without the Process button pressed, the run after a click on the
\* current stage's own button included.
C22_SelectionChangesOnlyCurrentStage ==
    [][ /\ StageChanged =>
            /\ current_stage' \in StageKeys
            /\ progress' = progress
            /\ sample_input' = sample_input
            /\ initialized' = initialized
            /\ calls' = 0 /\ pc' = "idle" /\ response' = <<>>
        /\ (initialized /\ last_run' = "render") =>
                /\ progress' = progress
                /\ calls' = 0 /\ pc' = "idle" ]_vars

\* The session has just moved from a processed stage to vendor_matching, with
\* two outputs stored and text waiting in the input area, and nothing was
\* called.
C22_Witness ==
    /\ last_run = "render"
    /\ current_stage = "vendor_matching"
    /\ DOMAIN progress = {"business_to_technical_req", "rfp_generation"}
    /\ input_data # ""
    /\ calls = 0 /\ pc = "idle"
-----------------------------------------------------------------------------
\* Invariants of the session state.

\* current_stage is None or a stage key, and progress is keyed by stage keys.
SessionTypeOK ==
    /\ current_stage \in {None} \cup StageKeys
    /\ DOMAIN progress \subseteq StageKeys

\* C23: in every reachable state current_stage is None or one of the seven
\* stage keys and the keys of progress are among the seven stage keys; no step
\* takes current_stage from a stage key back to None; and a step adds a key to
\* progress only if that key is the current stage before and after the step.
C23_SessionInvariants ==
    /\ []SessionTypeOK
    /\ [][ /\ current_stage # None => current_stage' # None
           /\ \A k \in DOMAIN progress' \ DOMAIN progress :
                 k = current_stage /\ k = current_stage' ]_vars

\* risk_contract, selected and processed on its own, has just added the first
\* key to progress.
C23_Witness ==
    /\ last_run = "process_ok"
    /\ current_stage = "risk_contract"
    /\ DOMAIN progress = {"risk_contract"}
    /\ progress["risk_contract"] = response[1]
-----------------------------------------------------------------------------
\* The bid chart.

\* Record i of the parsed list has both keys the chart needs.
Chartable(i) == "vendor" \in DOMAIN bids[i] /\ "price" \in DOMAIN bids[i]

\* C24: create_bid_visualization returns a figure exactly when the list of
\* records is non-empty and every record has a vendor and a price, and the
\* figure then has one bar per record, in the order of the list, carrying that
\* record's vendor and price; in every other case it returns None.
C24_ChartOnlyWhenAllComplete ==
    bid_phase = "charted" =>
      IF Len(bids) > 0 /\ \A i \in 1..Len(bids) : Chartable(i)
      THEN /\ bid_chart.kind = "Figure"
           /\ Len(bid_chart.x) = Len(bids) /\ Len(bid_chart.y) = Len(bids)
           /\ \A i \in 1..Len(bids) :
                 bid_chart.x[i] = bids[i].vendor /\ bid_chart.y[i] = bids[i].price
      ELSE bid_chart = NoFigure

\* Three records were parsed, two of them with vendor and price and one
\* lacking a price, and no chart was produced.
C24_Witness ==
    /\ bid_phase = "charted"
    /\ Len(bids) = 3
    /\ Cardinality({ i \in 1..Len(bids) : Chartable(i) }) = 2
    /\ \E i \in 1..Len(bids) :
          "vendor" \in DOMAIN bids[i] /\ "price" \notin DOMAIN bids[i]
    /\ bid_chart = NoFigure
-----------------------------------------------------------------------------
\* The bid chart next to a stored bid_evaluation result.

\* The session on the pages of bid_evaluation and of the stage after it: the
\* events of Next, with the stage buttons limited to these two stages and
\* without the sample button, which neither page reads.
BidPageStages == {"bid_evaluation", "negotiation_strategy"}

\* Bid texts the user may type besides UserTexts.
TypedBids == { "Bid 1: Acme\nTotal Cost: $1,000\n" }

NextBidCard ==
    \/ PageLoad
    \/ \E s \in BidPageStages : SelectStage(s)
    \/ \E t \in UserTexts \cup TypedBids \cup {""} : EditInput(t)
    \/ ToggleSampleBids
    \/ ProcessPress
    \/ \E reply \in Responses : CollaboratorReturn(reply)
    \/ CollaboratorRaise

SpecBidCard == Init /\ [][NextBidCard]_vars

\* The latest script run reached the result card of bid_evaluation: the stage
\* is current, its result is stored and the run was ended neither by an
\* exception nor by an event arriving inside the Process block.
BidCardShown ==
    /\ initialized /\ pc = "idle"
    /\ \/ last_run \in {"render", "process_ok"}
       \/ last_run = "process" /\ ~process_guard(input_data)
    /\ current_stage = "bid_evaluation"
    /\ "bid_evaluation" \in DOMAIN progress

\* The card as the latest run drew it.
BidCard == bid_evaluation_display(progress, input_data)

\* The texts the input field of bid_evaluation can hold.
BidFieldTexts == UserTexts \cup TypedBids \cup {"", sample_bids}

\* C25: whenever the result card of bid_evaluation is shown, its left column is
\* the stored result and its chart is the one of the records parsed from the
\* text the input field holds in that run: the chart is the same whatever
\* result is stored, and it is absent when the field is empty or holds text
\* with no complete bid, although the stored result was produced from a
\* non-empty text.
C25_ChartFromCurrentInput ==
    BidCardShown =>
      /\ input_data \in BidFieldTexts
      /\ BidCard.result = progress["bid_evaluation"]
      /\ BidCard.chart = bid_column(input_data)
      /\ \A reply \in Responses :
            bid_evaluation_display(
              store_result(progress, "bid_evaluation", reply), input_data).chart
            = BidCard.chart
      /\ input_data = "" => BidCard.chart = << >>

\* A result is stored for bid_evaluation, the input field is empty, and the
\* card shows the result with no chart.
C25_Witness ==
    /\ BidCardShown
    /\ last_run = "render"
    /\ input_data = ""
    /\ BidCard.result \in Responses
    /\ BidCard.chart = << >>
====
